---- MODULE Spec2Model ----
(***************************************************************************)
(* Model of the stock dashboard script public/app.js, in its two variants: *)
(* the card view (src/public/app.js lines 1-275) and the table view        *)
(* (lines 277-435).                                                        *)
(*                                                                         *)
(* JavaScript strings are sequences of one-character strings, and every    *)
(* JavaScript value carries its type tag, so that String(), ||, ??,        *)
(* typeof and property access are computed the way the engine does.        *)
(***************************************************************************)
EXTENDS Integers, Sequences, FiniteSets

VARIABLES
    variant,        \* which variant of app.js the page runs: "card" | "table" | "pure"
    products,       \* card view: let products (line 10)
    rows,           \* table view: let rows (line 286)
    sourceWebsite,  \* card view: let sourceWebsite (line 11)
    searchInput,    \* searchInput.value
    url,            \* window.location search parameters, a list of <<name, value>>
    statusText,     \* statusText.textContent
    listArea,       \* productList.innerHTML / tableBody.innerHTML, abstracted
    totalProducts,  \* totalProducts.textContent
    totalRows,      \* totalRows.textContent
    totalQty,       \* totalQty.textContent
    generatedAt,    \* generatedAt.textContent
    pending,        \* loadData invocations whose fetch has not settled yet
    started,        \* number of loadData invocations so far
    settled,        \* the response the latest invocation's fetch settled with
    input,          \* pure-function harness: the payload under test
    output,         \* pure-function harness: result of normalizeProducts(input)
    outRows         \* pure-function harness: result of normalizeRows(input)

vars == <<variant, products, rows, sourceWebsite, searchInput, url, statusText,
          listArea, totalProducts, totalRows, totalQty, generatedAt, pending,
          started, settled, input, output, outRows>>

(***************************************************************************)
(* JavaScript values                                                       *)
(***************************************************************************)
Str(s) == [t |-> "str", v |-> s]
Num(n) == [t |-> "num", v |-> n]
Arr(a) == [t |-> "arr", v |-> a]
Obj(r) == [t |-> "obj", v |-> r]
Null == [t |-> "null"]
Undef == [t |-> "undef"]

IsNullish(x) == x.t \in {"null", "undef"}

\* ToBoolean: "", 0, null and undefined are falsy; objects and arrays are truthy.
Truthy(x) ==
    CASE x.t = "str" -> x.v # <<>>
      [] x.t = "num" -> x.v # 0
      [] x.t \in {"arr", "obj"} -> TRUE
      [] OTHER -> FALSE

\* a || b
Or(a, b) == IF Truthy(a) THEN a ELSE b

\* a ?? b
Coalesce(a, b) == IF IsNullish(a) THEN b ELSE a

\* o.f for a value o that is not null or undefined (that access throws and is
\* guarded where the model uses Get).
Get(o, f) == IF o.t = "obj" /\ f \in DOMAIN o.v THEN o.v[f] ELSE Undef

DigitChars == <<"0", "1", "2", "3", "4", "5", "6", "7", "8", "9">>

RECURSIVE Digits(_)
\* Number.prototype.toString for a natural number.
Digits(n) ==
    IF n < 10 THEN <<DigitChars[n + 1]>>
    ELSE Digits(n \div 10) \o <<DigitChars[(n % 10) + 1]>>

RECURSIVE JoinWith(_, _)
\* Array.prototype.join over a sequence of strings.
JoinWith(parts, sep) ==
    IF parts = <<>> THEN <<>>
    ELSE IF Len(parts) = 1 THEN parts[1]
    ELSE parts[1] \o sep \o JoinWith(Tail(parts), sep)

RECURSIVE JsString(_)
\* String(x), also what a template literal does to ${x}.
JsString(x) ==
    CASE x.t = "str" -> x.v
      [] x.t = "num" -> Digits(x.v)
      [] x.t = "null" -> <<"n", "u", "l", "l">>
      [] x.t = "undef" -> <<"u", "n", "d", "e", "f", "i", "n", "e", "d">>
      [] x.t = "arr" ->
            JoinWith([i \in 1..Len(x.v) |->
                        IF IsNullish(x.v[i]) THEN <<>> ELSE JsString(x.v[i])],
                     <<",">>)
      [] OTHER -> <<"[", "o", "b", "j", "e", "c", "t", " ",
                    "O", "b", "j", "e", "c", "t", "]">>

(***************************************************************************)
(* String primitives                                                       *)
(***************************************************************************)
UpperChars == <<"A", "B", "D", "E", "L", "R", "S", "Y">>
LowerChars == <<"a", "b", "d", "e", "l", "r", "s", "y">>

\* String.prototype.toLowerCase on one character.
LowerChar(c) ==
    IF \E i \in 1..Len(UpperChars) : UpperChars[i] = c
    THEN LowerChars[CHOOSE i \in 1..Len(UpperChars) : UpperChars[i] = c]
    ELSE c

ToLowerCase(s) == [i \in 1..Len(s) |-> LowerChar(s[i])]

IsSpace(c) == c = " "

RECURSIVE TrimStart(_)
TrimStart(s) ==
    IF s # <<>> /\ IsSpace(Head(s)) THEN TrimStart(Tail(s)) ELSE s

RECURSIVE TrimEnd(_)
TrimEnd(s) ==
    IF s # <<>> /\ IsSpace(s[Len(s)]) THEN TrimEnd(SubSeq(s, 1, Len(s) - 1)) ELSE s

Trim(s) == TrimEnd(TrimStart(s))

StartsWith(s, p) == Len(s) >= Len(p) /\ SubSeq(s, 1, Len(p)) = p

\* String.prototype.includes
Includes(s, p) ==
    \E i \in 0..(Len(s) - Len(p)) : SubSeq(s, i + 1, i + Len(p)) = p

RECURSIVE Split(_, _)
\* String.prototype.split on a one-character separator.
Split(s, sep) ==
    IF \E i \in 1..Len(s) : s[i] = sep
    THEN LET i == CHOOSE k \in 1..Len(s) :
                      s[k] = sep /\ \A j \in 1..(k - 1) : s[j] # sep
         IN <<SubSeq(s, 1, i - 1)>> \o Split(SubSeq(s, i + 1, Len(s)), sep)
    ELSE <<s>>

RECURSIVE StripTrailingSlashes(_)
\* base.replace(/\/+$/, "")
StripTrailingSlashes(s) ==
    IF s # <<>> /\ s[Len(s)] = "/"
    THEN StripTrailingSlashes(SubSeq(s, 1, Len(s) - 1))
    ELSE s

NonEmpty(parts) == SelectSeq(parts, LAMBDA p : p # <<>>)

Braced(s) == <<"{">> \o s \o <<"}">>

RECURSIVE Concat(_)
\* join("")
Concat(parts) == IF parts = <<>> THEN <<>> ELSE parts[1] \o Concat(Tail(parts))

(***************************************************************************)
(* String literals of the script                                           *)
(***************************************************************************)
ReadyMarker == <<"[", "r", "e", "a", "d", "y", "]">>
DefaultWebsite == <<"z", "z", "h", "o", "m", "e", "y", ".", "c", "o", "m">>
HttpScheme == <<"h", "t", "t", "p", ":", "/", "/">>
HttpsScheme == <<"h", "t", "t", "p", "s", ":", "/", "/">>
ProductPath == <<"/", "p", "r", "o", "d", "u", "c", "t", "/">>
TanpaNama == <<"T", "a", "n", "p", "a", " ", "N", "a", "m", "a">>
TanpaVariasi == <<"{", "T", "a", "n", "p", "a", " ", "V", "a", "r", "i", "a", "s", "i", "}">>
SkuPrefix == <<"{", "S", "K", "U", ":">>
EmptyStr == Str(<<>>)

(***************************************************************************)
(* Pure functions of the card view                                         *)
(***************************************************************************)
\* A gate that looks for the marker anywhere in the name.
isReadyProductNameAnywhere(name) ==
    Includes(ToLowerCase(TrimStart(JsString(Or(name, EmptyStr)))), ReadyMarker)

isReadyProductName(name) ==
    StartsWith(ToLowerCase(TrimStart(JsString(Or(name, EmptyStr)))), ReadyMarker)

\* payload?.source?.website || "zzhomey.com"
WebsiteOf(payload) ==
    LET source == IF IsNullish(payload) THEN Undef ELSE Get(payload, "source")
        site == IF IsNullish(source) THEN Undef ELSE Get(source, "website")
    IN Or(site, Str(DefaultWebsite))

buildProductLink(baseWebsite, productId, productSlug) ==
    LET given == Trim(JsString(Or(baseWebsite, EmptyStr)))
        named == IF given = <<>> THEN DefaultWebsite ELSE given
        schemed == IF ~StartsWith(named, HttpScheme) /\ ~StartsWith(named, HttpsScheme)
                   THEN HttpsScheme \o named
                   ELSE named
        base == StripTrailingSlashes(schemed)
    IN IF Truthy(productSlug)
       THEN Str(base \o ProductPath \o JsString(productSlug))
       ELSE Str(base \o ProductPath \o JsString(Or(productId, EmptyStr)))

\* The callback of variations.map (lines 66-74).
VariationItemText(item) ==
    IF Truthy(item) /\ item.t \in {"obj", "arr"}
    THEN LET raw == Or(Or(Or(Or(Get(item, "value"), Get(item, "option")),
                             Get(item, "name")), Get(item, "key")), EmptyStr)
             text == Trim(JsString(Or(raw, EmptyStr)))
         IN IF text # <<>> THEN Braced(text) ELSE <<>>
    ELSE LET text == Trim(JsString(Or(item, EmptyStr)))
         IN IF text # <<>> THEN Braced(text) ELSE <<>>

formatVariationInline(variations, variationText, sku) ==
    LET cleanVariationText == Trim(JsString(Or(variationText, EmptyStr)))
    IN IF variations.t = "arr" /\ Len(variations.v) > 0
       THEN Str(Concat(NonEmpty([i \in 1..Len(variations.v) |->
                                    VariationItemText(variations.v[i])])))
       ELSE IF cleanVariationText # <<>>
       THEN IF StartsWith(cleanVariationText, <<"{">>)
            THEN Str(cleanVariationText)
            ELSE LET parts == Split(cleanVariationText, ",")
                     trimmed == [i \in 1..Len(parts) |-> Trim(parts[i])]
                     kept == NonEmpty(trimmed)
                 IN Str(Concat([i \in 1..Len(kept) |-> Braced(kept[i])]))
       ELSE IF Trim(JsString(Or(sku, EmptyStr))) # <<>>
       THEN Str(SkuPrefix \o Trim(JsString(sku)) \o <<"}">>)
       ELSE Str(TanpaVariasi)

\* What a call returns: a value, or a TypeError thrown out of it.
Returned(v) == [threw |-> FALSE, value |-> v]
Threw == [threw |-> TRUE]

\* Array.isArray(product.stocks) ? product.stocks : []
StocksOf(product) ==
    IF Get(product, "stocks").t = "arr" THEN Get(product, "stocks").v ELSE <<>>

\* The callback of payload.products.map (lines 105-132), for a product whose
\* stocks hold no null entry.
CanonicalProduct(product, website) ==
    LET productId == Or(Or(Get(product, "product_id"), Get(product, "id")), EmptyStr)
        productName == Or(Or(Get(product, "product_name"), Get(product, "name")),
                          Str(TanpaNama))
        productSlug == Or(Or(Get(product, "product_slug"), Get(product, "slug")), EmptyStr)
        productLink == Or(Get(product, "product_link"),
                          buildProductLink(website, productId, productSlug))
        stocks == StocksOf(product)
    IN [product_id |-> productId,
        product_name |-> productName,
        product_link |-> productLink,
        product_image |-> Or(Get(product, "product_image"), EmptyStr),
        lines |-> [i \in 1..Len(stocks) |->
                     [variation_inline |->
                          formatVariationInline(Get(stocks[i], "variations"),
                                                Get(stocks[i], "variation_text"),
                                                Get(stocks[i], "sku")),
                      stock |-> Get(stocks[i], "stock"),
                      sku |-> Get(stocks[i], "sku"),
                      link |-> productLink]]]

\* A key that ignores product_id.
GroupKeyByName(row) == Or(Get(row, "product_name"), EmptyStr)

\* The Map key of a flat row (line 140).
GroupKey(row) == Or(Or(Get(row, "product_id"), Get(row, "product_name")), EmptyStr)

\* The stock line pushed for a flat row (lines 152-157).
ItemLine(row, bucketLink) ==
    [variation_inline |-> formatVariationInline(Arr(<<>>), Get(row, "variation_text"),
                                                Get(row, "sku")),
     stock |-> Get(row, "stock"),
     sku |-> Get(row, "sku"),
     link |-> Or(Get(row, "product_link"), bucketLink)]

\* The bucket created for the first row of a key (lines 142-149).
NewBucket(row, website) ==
    [product_id |-> Or(Get(row, "product_id"), EmptyStr),
     product_name |-> Or(Get(row, "product_name"), Str(TanpaNama)),
     product_link |-> Or(Get(row, "product_link"),
                         buildProductLink(website, Get(row, "product_id"), EmptyStr)),
     product_image |-> Or(Get(row, "product_image"), EmptyStr),
     lines |-> <<>>]

RECURSIVE GroupRows(_, _, _)
\* The forEach over the ready rows (lines 139-158): grouped is the Map, as the
\* list of its entries in insertion order.
GroupRows(rest, grouped, website) ==
    IF rest = <<>> THEN grouped
    ELSE LET row == Head(rest)
             key == GroupKey(row)
             has == \E i \in 1..Len(grouped) : grouped[i].key = key
             withKey == IF has THEN grouped
                        ELSE Append(grouped, [key |-> key,
                                              bucket |-> NewBucket(row, website)])
             at == CHOOSE i \in 1..Len(withKey) : withKey[i].key = key
             bucket == withKey[at].bucket
             pushed == [bucket EXCEPT
                          !.lines = Append(@, ItemLine(row, bucket.product_link))]
         IN GroupRows(Tail(rest),
                      [withKey EXCEPT ![at] = [key |-> key, bucket |-> pushed]],
                      website)

HasNullish(seq) == \E i \in 1..Len(seq) : IsNullish(seq[i])

ReadyNested(product) ==
    isReadyProductName(Or(Get(product, "product_name"), Get(product, "name")))

ReadyFlat(row) == isReadyProductName(Get(row, "product_name"))

normalizeProducts(payload) ==
    IF IsNullish(payload) THEN Threw                     \* payload.products
    ELSE IF Get(payload, "products").t = "arr"
    THEN LET all == Get(payload, "products").v
             website == WebsiteOf(payload)
         IN IF HasNullish(all) THEN Threw                \* product.product_name
            ELSE LET ready == SelectSeq(all, ReadyNested)
                 IN IF \E i \in 1..Len(ready) : HasNullish(StocksOf(ready[i]))
                    THEN Threw                           \* stock.variations
                    ELSE Returned([i \in 1..Len(ready) |->
                                      CanonicalProduct(ready[i], website)])
    ELSE IF Get(payload, "items").t = "arr"
    THEN LET all == Get(payload, "items").v
         IN IF HasNullish(all) THEN Threw                \* row.product_name
            ELSE LET grouped == GroupRows(SelectSeq(all, ReadyFlat), <<>>,
                                          WebsiteOf(payload))
                 IN Returned([i \in 1..Len(grouped) |-> grouped[i].bucket])
    ELSE Returned(<<>>)

(***************************************************************************)
(* Pure functions of the table view                                        *)
(***************************************************************************)
FieldOrder == <<"value", "option", "name", "key">>

FieldChars(f) ==
    CASE f = "value" -> <<"v", "a", "l", "u", "e">>
      [] f = "option" -> <<"o", "p", "t", "i", "o", "n">>
      [] f = "name" -> <<"n", "a", "m", "e">>
      [] OTHER -> <<"k", "e", "y">>

RECURSIVE JsonStringify(_)
\* JSON.stringify; the members of an object are written in FieldOrder.
JsonStringify(x) ==
    CASE x.t = "str" -> <<"\"">> \o x.v \o <<"\"">>
      [] x.t = "num" -> Digits(x.v)
      [] x.t = "arr" ->
            <<"[">> \o JoinWith([i \in 1..Len(x.v) |->
                                   IF x.v[i].t = "undef" THEN <<"n", "u", "l", "l">>
                                   ELSE JsonStringify(x.v[i])], <<",">>) \o <<"]">>
      [] x.t = "obj" ->
            LET fields == SelectSeq(FieldOrder, LAMBDA f : f \in DOMAIN x.v)
            IN <<"{">> \o JoinWith([i \in 1..Len(fields) |->
                                      <<"\"">> \o FieldChars(fields[i]) \o <<"\"", ":">>
                                        \o JsonStringify(x.v[fields[i]])], <<",">>)
                 \o <<"}">>
      [] OTHER -> <<"n", "u", "l", "l">>

\* The object pushed for one stock of a ready product (lines 383-390).
TableRow(productId, productName, stock) ==
    Obj([product_id |-> productId,
         product_name |-> productName,
         sku |-> Get(stock, "sku"),
         stock |-> Get(stock, "stock"),
         warehouse_id |-> Get(stock, "warehouse_id"),
         variation_text |-> IF Get(stock, "variations").t = "arr"
                            THEN Str(JsonStringify(Get(stock, "variations")))
                            ELSE EmptyStr])

TableName(product) ==
    Or(Or(Get(product, "product_name"), Get(product, "name")), Str(TanpaNama))

RECURSIVE TableRowsOf(_)
\* The forEach over payload.products (lines 375-392), no entry being null.
TableRowsOf(all) ==
    IF all = <<>> THEN <<>>
    ELSE LET product == Head(all)
             productId == Or(Or(Get(product, "product_id"), Get(product, "id")), EmptyStr)
             productName == TableName(product)
             stocks == StocksOf(product)
         IN (IF ~isReadyProductName(productName) THEN <<>>
             ELSE [i \in 1..Len(stocks) |-> TableRow(productId, productName, stocks[i])])
            \o TableRowsOf(Tail(all))

normalizeRows(payload) ==
    IF IsNullish(payload) THEN Threw                     \* payload.items
    ELSE IF Get(payload, "items").t = "arr"
    THEN LET all == Get(payload, "items").v
         IN IF HasNullish(all) THEN Threw                \* row.product_name
            ELSE Returned(SelectSeq(all, ReadyFlat))
    ELSE IF Get(payload, "products").t # "arr" THEN Returned(<<>>)
    ELSE LET all == Get(payload, "products").v
         IN IF HasNullish(all)
               \/ \E i \in 1..Len(all) :
                     ~IsNullish(all[i]) /\ isReadyProductName(TableName(all[i]))
                     /\ HasNullish(StocksOf(all[i]))
            THEN Threw                                   \* product.product_id, stock.sku
            ELSE Returned(TableRowsOf(all))

(***************************************************************************)
(* The page address: window.location.search without its "?", as text.      *)
(* URLSearchParams parses it to a list of <<name, value>> and the URL      *)
(* object writes the list back in application/x-www-form-urlencoded form.  *)
(***************************************************************************)
PercentTable ==
    << <<"&", "2", "6">>, <<"=", "3", "D">>, <<"+", "2", "B">>, <<"%", "2", "5">>,
       <<"{", "7", "B">>, <<"}", "7", "D">>, <<"[", "5", "B">>, <<"]", "5", "D">>,
       <<",", "2", "C">>, <<":", "3", "A">>, <<"/", "2", "F">> >>

EncodeChar(c) ==
    IF c = " " THEN <<"+">>
    ELSE IF \E i \in 1..Len(PercentTable) : PercentTable[i][1] = c
    THEN LET e == PercentTable[CHOOSE i \in 1..Len(PercentTable) : PercentTable[i][1] = c]
         IN <<"%", e[2], e[3]>>
    ELSE <<c>>

UrlEncode(s) == Concat([i \in 1..Len(s) |-> EncodeChar(s[i])])

RECURSIVE UrlDecode(_)
UrlDecode(s) ==
    IF s = <<>> THEN <<>>
    ELSE IF Head(s) = "+" THEN <<" ">> \o UrlDecode(Tail(s))
    ELSE IF Head(s) = "%" /\ Len(s) >= 3
            /\ \E i \in 1..Len(PercentTable) :
                  PercentTable[i][2] = s[2] /\ PercentTable[i][3] = s[3]
    THEN LET e == PercentTable[CHOOSE i \in 1..Len(PercentTable) :
                                  PercentTable[i][2] = s[2] /\ PercentTable[i][3] = s[3]]
         IN <<e[1]>> \o UrlDecode(SubSeq(s, 4, Len(s)))
    ELSE <<Head(s)>> \o UrlDecode(Tail(s))

\* One name=value piece of the query string.
ParsePair(piece) ==
    LET halves == Split(piece, "=")
    IN <<UrlDecode(halves[1]),
         UrlDecode(JoinWith(Tail(halves), <<"=">>))>>

\* new URLSearchParams(window.location.search)
ParseSearch(search) ==
    LET pieces == NonEmpty(Split(search, "&"))
    IN [i \in 1..Len(pieces) |-> ParsePair(pieces[i])]

\* url.toString(), the query part.
SerializeSearch(params) ==
    JoinWith([i \in 1..Len(params) |->
                UrlEncode(params[i][1]) \o <<"=">> \o UrlEncode(params[i][2])],
             <<"&">>)

\* params.get(name): the first value of that name, or null.
ParamsGet(params, name) ==
    IF \E i \in 1..Len(params) : params[i][1] = name
    THEN Str(params[CHOOSE i \in 1..Len(params) :
                       params[i][1] = name
                       /\ \A j \in 1..(i - 1) : params[j][1] # name][2])
    ELSE Null

\* searchParams.delete(name)
ParamsDelete(params, name) == SelectSeq(params, LAMBDA p : p[1] # name)

\* searchParams.set(name, value): the first pair of that name takes the
\* value and the others go; a new name is appended.
ParamsSet(params, name, value) ==
    IF \E i \in 1..Len(params) : params[i][1] = name
    THEN LET first == CHOOSE i \in 1..Len(params) :
                          params[i][1] = name
                          /\ \A j \in 1..(i - 1) : params[j][1] # name
         IN SubSeq(params, 1, first - 1) \o << <<name, value>> >>
              \o ParamsDelete(SubSeq(params, first + 1, Len(params)), name)
    ELSE Append(params, <<name, value>>)

ParamQ == <<"q">>
ParamSearch == <<"s", "e", "a", "r", "c", "h">>
ParamKeyword == <<"k", "e", "y", "w", "o", "r", "d">>

getInitialQuery(search) ==
    LET params == ParseSearch(search)
    IN Trim(JsString(Or(Or(Or(ParamsGet(params, ParamQ), ParamsGet(params, ParamSearch)),
                           ParamsGet(params, ParamKeyword)), EmptyStr)))

\* The search text of the address after syncUrlQuery(q).
syncUrlQuery(search, q) ==
    LET params == ParseSearch(search)
    IN IF q # <<>>
       THEN SerializeSearch(ParamsSet(params, ParamQ, q))
       ELSE SerializeSearch(ParamsDelete(params, ParamQ))

(***************************************************************************)
(* Display functions                                                       *)
(***************************************************************************)
Pad3(n) == <<DigitChars[(n \div 100) + 1], DigitChars[((n \div 10) % 10) + 1],
             DigitChars[(n % 10) + 1]>>

RECURSIVE LocaleDigits(_)
\* Number.prototype.toLocaleString("id-ID") for a natural number.
LocaleDigits(n) ==
    IF n < 1000 THEN Digits(n)
    ELSE LocaleDigits(n \div 1000) \o <<".">> \o Pad3(n % 1000)

formatNumber(value) ==
    IF value.t # "num" THEN <<"-">> ELSE LocaleDigits(value.v)

RECURSIVE SumSeq(_)
SumSeq(ns) == IF ns = <<>> THEN 0 ELSE Head(ns) + SumSeq(Tail(ns))

\* typeof x.stock === "number" ? x.stock : 0
StockAmount(stock) == IF stock.t = "num" THEN stock.v ELSE 0

\* The markup renderProducts writes, as the cards and lines it shows.
renderProducts(items) ==
    IF Len(items) = 0 THEN [kind |-> "notfound"]
    ELSE [kind |-> "list",
          shown |-> [i \in 1..Len(items) |->
                       [title |-> items[i].product_name,
                        image |-> items[i].product_image,
                        lines |-> [j \in 1..Len(items[i].lines) |->
                                     [variation |-> items[i].lines[j].variation_inline,
                                      value |-> formatNumber(items[i].lines[j].stock),
                                      link |-> items[i].lines[j].link]]]]]

\* The three counter texts updateSummary writes.
updateSummary(items) ==
    LET rowCount == SumSeq([i \in 1..Len(items) |-> Len(items[i].lines)])
        qty == SumSeq([i \in 1..Len(items) |->
                         SumSeq([j \in 1..Len(items[i].lines) |->
                                    StockAmount(items[i].lines[j].stock)])])
    IN [products |-> formatNumber(Num(Len(items))),
        rows |-> formatNumber(Num(rowCount)),
        qty |-> formatNumber(Num(qty))]

\* The text a card-view stock line is searched in (line 225).
CardHaystack(line) ==
    ToLowerCase(JsString(Or(line.variation_inline, EmptyStr)) \o <<" ">>
                \o JsString(Or(line.sku, EmptyStr)) \o <<" ">>
                \o JsString(Coalesce(line.stock, EmptyStr)))

\* A filter that searches the product name only.
CardMatchesNameOnly(product, q) ==
    Includes(ToLowerCase(Or(product.product_name, EmptyStr).v), q)

\* The callback of products.filter (lines 220-228).
CardMatches(product, q) ==
    \/ Includes(ToLowerCase(Or(product.product_name, EmptyStr).v), q)
    \/ \E j \in 1..Len(product.lines) : Includes(CardHaystack(product.lines[j]), q)

\* The list applyFilter of the card view shows for a search box value.
CardFiltered(all, boxValue) ==
    LET q == ToLowerCase(Trim(boxValue))
    IN IF q # <<>> THEN SelectSeq(all, LAMBDA p : CardMatches(p, q)) ELSE all

\* The markup renderTable writes, as the rows it shows.
renderTable(filteredRows) ==
    IF Len(filteredRows) = 0 THEN [kind |-> "notfound"]
    ELSE [kind |-> "list",
          shown |-> [i \in 1..Len(filteredRows) |->
                       [name |-> JsString(Or(Get(filteredRows[i], "product_name"),
                                             Str(<<"-">>))),
                        sku |-> JsString(Or(Get(filteredRows[i], "sku"), Str(<<"-">>))),
                        variation |-> JsString(Or(Get(filteredRows[i], "variation_text"),
                                                  Str(<<"-">>))),
                        warehouse |-> JsString(Or(Get(filteredRows[i], "warehouse_id"),
                                                  Str(<<"-">>))),
                        value |-> formatNumber(Get(filteredRows[i], "stock"))]]]

\* The text a table row is searched in (line 356).
TableHaystack(row) ==
    ToLowerCase(JsString(Or(Get(row, "product_name"), EmptyStr)) \o <<" ">>
                \o JsString(Or(Get(row, "sku"), EmptyStr)) \o <<" ">>
                \o JsString(Or(Get(row, "variation_text"), EmptyStr)))

\* The rows applyFilter of the table view shows for a search box value.
TableFiltered(all, boxValue) ==
    LET q == ToLowerCase(Trim(boxValue))
    IN IF q = <<>> THEN all
       ELSE SelectSeq(all, LAMBDA r : Includes(TableHaystack(r), q))

(***************************************************************************)
(* Inputs: names, stock lines, products, rows and payloads                 *)
(***************************************************************************)
MaxLoads == 2      \* loadData invocations in one run
MaxProducts == 2   \* entries of a generated products array
MaxStocks == 2     \* entries of a generated stocks array
MaxRows == 3       \* entries of a generated items array

NameReadyA == Str(<<"[", "R", "e", "a", "d", "y", "]", " ", "a">>)
NameReadyB == Str(<<" ", " ", "[", "R", "E", "A", "D", "Y", "]", "b">>)
NameLate == Str(<<"b", " ", "[", "r", "e", "a", "d", "y", "]">>)
NamePlain == Str(<<"b">>)

IdP1 == Str(<<"P", "1">>)
IdP2 == Str(<<"P", "2">>)
IdP3 == Str(<<"P", "3">>)

Sku(n) == Str(<<"S", DigitChars[n + 1]>>)
SkuOut(n) == Str(<<"N", DigitChars[n + 1]>>)

\* Stock lines: a complete one, one with structured variations, one whose
\* variations are all empty, one whose variation_text is only commas, one
\* with a text stock, one with nothing but a quantity.
StockText == Obj([sku |-> Sku(1), stock |-> Num(5),
                  variation_text |-> Str(<<"r", ",", " ", "l">>)])
StockPlain == Obj([sku |-> Sku(2), stock |-> Num(3)])
StockStruct == Obj([sku |-> Sku(3), stock |-> Num(1200),
                    variations |-> Arr(<<Obj([value |-> Str(<<"a">>)]),
                                         Str(<<"b">>)>>)])
StockBlankVars == Obj([sku |-> Sku(4), stock |-> Num(1),
                       variations |-> Arr(<<Str(<<>>), Obj([name |-> Str(<<" ">>)])>>)])
StockCommas == Obj([sku |-> Sku(5), stock |-> Str(<<"x">>),
                    variation_text |-> Str(<<",", " ", ",">>)])
StockBare == Obj([stock |-> Num(4)])
StockOut == Obj([sku |-> SkuOut(1), stock |-> Num(7)])

StockPool == {StockText, StockPlain, StockStruct, StockBlankVars, StockCommas,
              StockBare, Null}

SeqsUpTo(S, n) == UNION {[1..k -> S] : k \in 0..n}

Product(id, name, stocks) ==
    Obj([product_id |-> id, product_name |-> name, stocks |-> Arr(stocks)])

ProductPool ==
    {Product(IdP1, NameReadyA, <<StockText, StockPlain>>),
     Product(IdP2, NameReadyB, <<StockStruct>>),
     Product(IdP2, NamePlain, <<StockOut>>),
     Product(IdP3, NameLate, <<StockOut, StockPlain>>),
     Obj([id |-> IdP3, name |-> NameReadyA, slug |-> Str(<<"a">>),
          stocks |-> Str(<<"x">>)]),
     Obj([product_id |-> Num(5), product_name |-> Num(5), stocks |-> Arr(<<StockOut>>)]),
     Num(7),
     Null}

Row(id, name, sku, stock) ==
    Obj([product_id |-> id, product_name |-> name, sku |-> sku, stock |-> stock])

RowPool ==
    {Row(IdP1, NameReadyA, Sku(1), Num(5)),
     Row(IdP1, NameReadyB, Sku(2), Num(3)),
     Row(IdP2, NameReadyA, Sku(3), Str(<<"x">>)),
     Obj([product_name |-> NameReadyA, sku |-> Sku(4), stock |-> Num(1),
          product_link |-> Str(<<"h", "t", "t", "p", ":", "/", "/", "x", "/">>)]),
     Row(IdP1, NamePlain, SkuOut(1), Num(9)),
     Row(EmptyStr, NameLate, SkuOut(2), Num(2)),
     Obj([product_id |-> EmptyStr, product_name |-> NameReadyB, sku |-> Sku(5),
          stock |-> Num(2), product_image |-> Str(<<"i">>)]),
     Null}

Site == Obj([website |-> Str(<<"x", ".", "i", "d", "/", "/">>)])

\* The parsed documents the normalizers are applied to.
PayloadPool ==
    {Obj([products |-> Arr(ps)]) : ps \in SeqsUpTo(ProductPool, MaxProducts)}
    \cup {Obj([products |-> Arr(<<Product(IdP1, NameReadyA, ss)>>), source |-> Site])
            : ss \in SeqsUpTo(StockPool, MaxStocks)}
    \cup {Obj([items |-> Arr(rs)]) : rs \in SeqsUpTo(RowPool, MaxRows)}
    \cup {Obj([products |-> Arr(ps), items |-> Arr(rs)])
            : ps \in SeqsUpTo({Product(IdP1, NameReadyA, <<StockText>>),
                               Product(IdP2, NamePlain, <<StockOut>>)}, 1),
              rs \in SeqsUpTo({Row(IdP2, NameReadyB, Sku(2), Num(3)),
                               Row(IdP1, NamePlain, SkuOut(1), Num(9))}, 1)}
    \cup {Obj([products |-> Str(<<"x">>), items |-> Arr(<<Row(IdP1, NameReadyA, Sku(1), Num(5))>>)]),
          Obj([products |-> Null, items |-> Num(1)]),
          Obj([source |-> Null]),
          Null, Num(3), Str(<<"x">>), Arr(<<>>)}

\* The documents the dashboard is served.
PayloadNested ==
    Obj([products |-> Arr(<<Product(IdP1, NameReadyA, <<StockText, StockPlain>>),
                            Product(IdP2, NamePlain, <<StockOut>>),
                            Product(IdP3, NameReadyB, <<StockCommas>>)>>),
         source |-> Site])
PayloadFlat ==
    Obj([items |-> Arr(<<Row(IdP1, NameReadyA, Sku(1), Num(2)),
                         Row(IdP2, NameReadyB, Sku(3), Num(1200))>>),
         generated_at |-> Str(<<"2", "0", "2", "6">>)])

\* How a fetch settles: a parsed document, an HTTP error status, a rejected
\* fetch.
Json(payload) == [kind |-> "json", payload |-> payload]
HttpError == [kind |-> "http",
              message |-> <<"H", "T", "T", "P", " ", "4", "0", "4">>]
NetworkError == [kind |-> "network",
                 message |-> <<"F", "a", "i", "l", "e", "d", " ", "t", "o", " ",
                               "f", "e", "t", "c", "h">>]

\* error.message of the TypeError a null property read raises.
TypeErrorMessage == <<"C", "a", "n", "n", "o", "t", " ", "r", "e", "a", "d">>
Responses == {Json(PayloadNested), Json(PayloadFlat), Json(Null), HttpError, NetworkError}

NotSettled == [kind |-> "pending"]

\* What the user types into the search box.
Queries ==
    {<<>>, <<" ">>, <<"a">>, <<" ", "S", "1">>, <<"S", "1", " ", "5">>, <<"x">>}

\* The query string the page is opened with.
InitialSearches ==
    {<<>>,
     <<"q", "=", "a">>,
     <<"s", "e", "a", "r", "c", "h", "=", "S", "1">>,
     <<"k", "e", "y", "w", "o", "r", "d", "=", "+", "x">>,
     <<"q", "=", "&", "s", "e", "a", "r", "c", "h", "=", "a">>}

\* The counter text of the page's markup before the script writes one: the
\* markup is not among the sources, and "0" is what the failure branch of the
\* card view writes as well.
MarkupCounter == <<"0">>

(***************************************************************************)
(* The dashboard                                                           *)
(***************************************************************************)
Loading == [kind |-> "loading"]
SourceStatus(site) == [kind |-> "source", text |-> JsString(site)]
FailedStatus(message) == [kind |-> "failed", text |-> message]
Unavailable == [kind |-> "unavailable"]
Markup == [kind |-> "markup"]
NotRun == [run |-> FALSE]

\* new Date(payload.generated_at).toLocaleString("id-ID"), or "-".
GeneratedText(payload) ==
    IF Truthy(Get(payload, "generated_at"))
    THEN [kind |-> "date", of |-> Get(payload, "generated_at")]
    ELSE [kind |-> "dash"]

PureIdle == input = Null /\ output = NotRun /\ outRows = NotRun

Init ==
    /\ variant \in {"card", "table"}
    /\ url \in InitialSearches
    /\ searchInput = getInitialQuery(url)         \* lines 270-273
    /\ products = <<>>
    /\ rows = <<>>
    /\ sourceWebsite = Str(DefaultWebsite)
    /\ statusText = Loading                       \* loadData(), line 275
    /\ listArea = Markup
    /\ totalProducts = MarkupCounter
    /\ totalRows = MarkupCounter
    /\ totalQty = MarkupCounter
    /\ generatedAt = [kind |-> "dash"]
    /\ pending = {1}
    /\ started = 1
    /\ settled = NotSettled
    /\ PureIdle

\* A click on the refresh button starts loadData up to its first await.
RefreshClick ==
    /\ started < MaxLoads
    /\ statusText' = Loading
    /\ started' = started + 1
    /\ pending' = pending \cup {started + 1}
    /\ settled' = NotSettled
    /\ UNCHANGED <<variant, products, rows, sourceWebsite, searchInput, url, listArea,
                   totalProducts, totalRows, totalQty, generatedAt, input, output, outRows>>

\* Card view: the rest of loadData once its fetch has settled with resp.
CardLoadData(id, resp) ==
    LET result == IF resp.kind = "json" THEN normalizeProducts(resp.payload) ELSE Threw
        message == IF resp.kind = "json" THEN TypeErrorMessage ELSE resp.message
        filtered == CardFiltered(result.value, searchInput)
        summary == updateSummary(filtered)
    IN /\ variant = "card"
       /\ id \in pending
       /\ pending' = pending \ {id}
       /\ settled' = IF id = started THEN resp ELSE settled
       /\ sourceWebsite' = IF resp.kind = "json" THEN WebsiteOf(resp.payload)
                           ELSE sourceWebsite
       /\ IF ~result.threw
          THEN /\ products' = result.value
               /\ generatedAt' = GeneratedText(resp.payload)
               /\ statusText' = SourceStatus(WebsiteOf(resp.payload))
               /\ listArea' = renderProducts(filtered)
               /\ totalProducts' = summary.products
               /\ totalRows' = summary.rows
               /\ totalQty' = summary.qty
          ELSE /\ statusText' = FailedStatus(message)
               /\ listArea' = Unavailable
               /\ totalProducts' = <<"0">>
               /\ totalRows' = <<"0">>
               /\ totalQty' = <<"0">>
               /\ UNCHANGED <<products, generatedAt>>
       /\ UNCHANGED <<variant, rows, searchInput, url, started, input, output, outRows>>

CardLoadSettles == \E id \in pending, resp \in Responses : CardLoadData(id, resp)

\* Card view: the input listener, applyFilter({ syncUrl: true }).
CardInput ==
    \E typed \in Queries :
        LET filtered == CardFiltered(products, typed)
            summary == updateSummary(filtered)
        IN /\ variant = "card"
           /\ typed # searchInput
           /\ searchInput' = typed
           /\ listArea' = renderProducts(filtered)
           /\ totalProducts' = summary.products
           /\ totalRows' = summary.rows
           /\ totalQty' = summary.qty
           /\ url' = syncUrlQuery(url, Trim(typed))
           /\ UNCHANGED <<variant, products, rows, sourceWebsite, statusText, generatedAt,
                          pending, started, settled, input, output, outRows>>

\* new Set(rows.map((row) => row.product_id || row.product_name || "")).size
UniqueProducts(rs) ==
    Cardinality({Or(Or(Get(rs[i], "product_id"), Get(rs[i], "product_name")), EmptyStr)
                   : i \in 1..Len(rs)})

\* Table view: the rest of loadData once its fetch has settled with resp.
TableLoadData(id, resp) ==
    LET result == IF resp.kind = "json" THEN normalizeRows(resp.payload) ELSE Threw
        message == IF resp.kind = "json" THEN TypeErrorMessage ELSE resp.message
        stockAmount == SumSeq([i \in 1..Len(result.value) |->
                                  StockAmount(Get(result.value[i], "stock"))])
    IN /\ variant = "table"
       /\ id \in pending
       /\ pending' = pending \ {id}
       /\ settled' = IF id = started THEN resp ELSE settled
       /\ IF ~result.threw
          THEN /\ rows' = result.value
               /\ totalProducts' = formatNumber(Num(UniqueProducts(result.value)))
               /\ totalRows' = formatNumber(Num(Len(result.value)))
               /\ totalQty' = formatNumber(Num(stockAmount))
               /\ generatedAt' = GeneratedText(resp.payload)
               /\ statusText' = SourceStatus(WebsiteOf(resp.payload))
               /\ listArea' = renderTable(TableFiltered(result.value, searchInput))
          ELSE /\ statusText' = FailedStatus(message)
               /\ listArea' = Unavailable
               /\ UNCHANGED <<rows, totalProducts, totalRows, totalQty, generatedAt>>
       /\ UNCHANGED <<variant, products, sourceWebsite, searchInput, url, started,
                      input, output, outRows>>

TableLoadSettles == \E id \in pending, resp \in Responses : TableLoadData(id, resp)

\* Table view: the input listener, applyFilter({ syncUrl: true }).
TableInput ==
    \E typed \in Queries :
        /\ variant = "table"
        /\ typed # searchInput
        /\ searchInput' = typed
        /\ listArea' = renderTable(TableFiltered(rows, typed))
        /\ url' = syncUrlQuery(url, Trim(typed))
        /\ UNCHANGED <<variant, products, rows, sourceWebsite, statusText, totalProducts,
                       totalRows, totalQty, generatedAt, pending, started, settled,
                       input, output, outRows>>

Next == RefreshClick \/ CardLoadSettles \/ CardInput \/ TableLoadSettles \/ TableInput

Spec == Init /\ [][Next]_vars

(***************************************************************************)
(* The normalizers applied to a drawn document                             *)
(***************************************************************************)
NormInit ==
    /\ variant = "pure"
    /\ input \in PayloadPool
    /\ output = NotRun
    /\ outRows = NotRun
    /\ sourceWebsite = Str(DefaultWebsite)
    /\ products = <<>>
    /\ rows = <<>>
    /\ searchInput = <<>>
    /\ url = <<>>
    /\ statusText = Loading
    /\ listArea = Markup
    /\ totalProducts = MarkupCounter
    /\ totalRows = MarkupCounter
    /\ totalQty = MarkupCounter
    /\ generatedAt = [kind |-> "dash"]
    /\ pending = {}
    /\ started = 0
    /\ settled = NotSettled

RunNormalizeProducts ==
    /\ output = NotRun
    /\ output' = normalizeProducts(input)
    /\ sourceWebsite' = WebsiteOf(input)
    /\ UNCHANGED <<variant, products, rows, searchInput, url, statusText, listArea,
                   totalProducts, totalRows, totalQty, generatedAt, pending, started,
                   settled, input, outRows>>

RunNormalizeRows ==
    /\ outRows = NotRun
    /\ outRows' = normalizeRows(input)
    /\ UNCHANGED <<variant, products, rows, sourceWebsite, searchInput, url, statusText,
                   listArea, totalProducts, totalRows, totalQty, generatedAt, pending,
                   started, settled, input, output>>

NormNext == RunNormalizeProducts \/ RunNormalizeRows

NormSpec == NormInit /\ [][NormNext]_vars

(***************************************************************************)
(* Vocabulary of the properties                                            *)
(***************************************************************************)
\* A name carries the ready marker: a string that, after its leading
\* blanks, begins with "[ready]" in any letter case.
HasReadyMarker(name) ==
    /\ name.t = "str"
    /\ \E k \in 0..Len(name.v) :
          /\ \A j \in 1..k : name.v[j] = " "
          /\ Len(name.v) >= k + 7
          /\ ToLowerCase(SubSeq(name.v, k + 1, k + 7)) = ReadyMarker

IsArrayField(payload, field) ==
    ~IsNullish(payload) /\ Get(payload, field).t = "arr"

EntriesOf(payload, field) ==
    IF IsArrayField(payload, field) THEN Get(payload, field).v ELSE <<>>

\* The name of a products entry: product_name, or name when that is missing.
NestedNameOf(product) ==
    IF Truthy(Get(product, "product_name")) THEN Get(product, "product_name")
    ELSE Get(product, "name")

LineId(line) == <<Get(line, "sku"), Get(line, "stock")>>

\* The stock lines, as <<sku, stock>>, of the products entries of a
\* document that carry the ready marker.
NestedReadyLines(payload) ==
    LET ps == EntriesOf(payload, "products")
        LinesOf(product) ==
            {LineId(StocksOf(product)[j]) :
               j \in {j \in 1..Len(StocksOf(product)) : ~IsNullish(StocksOf(product)[j])}}
    IN UNION {LinesOf(ps[i]) :
                i \in {i \in 1..Len(ps) : ~IsNullish(ps[i])
                                           /\ HasReadyMarker(NestedNameOf(ps[i]))}}

\* The same of its items rows.
FlatReadyLines(payload) ==
    LET rs == EntriesOf(payload, "items")
    IN {LineId(rs[i]) :
          i \in {i \in 1..Len(rs) : ~IsNullish(rs[i])
                                     /\ HasReadyMarker(Get(rs[i], "product_name"))}}

ReadySourceLines(payload) == NestedReadyLines(payload) \cup FlatReadyLines(payload)

ProductsRan == output # NotRun /\ ~output.threw
RowsRan == outRows # NotRun /\ ~outRows.threw

(***************************************************************************)
(* C1: no product or row without the ready marker, and none of its stock   *)
(* lines, appears in the output of normalizeProducts or of normalizeRows,  *)
(* whichever shape the document has.                                       *)
(***************************************************************************)
C1_ReadyGate ==
    /\ ProductsRan =>
          \A k \in 1..Len(output.value) :
              /\ HasReadyMarker(output.value[k].product_name)
              /\ \A j \in 1..Len(output.value[k].lines) :
                    <<output.value[k].lines[j].sku, output.value[k].lines[j].stock>>
                        \in ReadySourceLines(input)
    /\ RowsRan =>
          \A k \in 1..Len(outRows.value) :
              /\ HasReadyMarker(Get(outRows.value[k], "product_name"))
              /\ LineId(outRows.value[k]) \in ReadySourceLines(input)

\* Both normalizers have returned products for a document that also holds an
\* entry without the marker that has stock lines of its own.
C1_Witness ==
    /\ ProductsRan /\ Len(output.value) >= 1
    /\ RowsRan /\ Len(outRows.value) >= 1
    /\ \E i \in 1..Len(EntriesOf(input, "products")) :
          LET p == EntriesOf(input, "products")[i]
          IN ~IsNullish(p) /\ ~HasReadyMarker(NestedNameOf(p)) /\ Len(StocksOf(p)) >= 1

(***************************************************************************)
(* C2: every stock line of every product normalizeProducts returns has a   *)
(* variation_inline that is not the empty string.                          *)
(***************************************************************************)
C2_InlineNeverEmpty ==
    ProductsRan =>
        \A k \in 1..Len(output.value) :
            \A j \in 1..Len(output.value[k].lines) :
                output.value[k].lines[j].variation_inline # EmptyStr

(***************************************************************************)
(* C3: normalizeProducts never raises, whatever parsed JSON value it is    *)
(* given.                                                                  *)
(***************************************************************************)
C3_NeverThrows == output # NotRun => ~output.threw

(***************************************************************************)
(* C4: for a flat items document normalizeProducts returns one product per *)
(* distinct grouping key among the ready rows, in order of first           *)
(* occurrence, with the name, link and image of the first row of the key   *)
(* and, as lines, exactly the ready rows of that key in source order.      *)
(***************************************************************************)
ClaimKey(row) ==
    IF Truthy(Get(row, "product_id")) THEN Get(row, "product_id")
    ELSE Get(row, "product_name")

\* The k-th smallest member of a set of numbers.
Nth(S, k) == CHOOSE i \in S : Cardinality({j \in S : j <= i}) = k

FlatUsed == ~IsArrayField(input, "products") /\ IsArrayField(input, "items")

C4_FlatGrouping ==
    (ProductsRan /\ FlatUsed) =>
        LET rs == Get(input, "items").v
            ready == {i \in 1..Len(rs) : HasReadyMarker(Get(rs[i], "product_name"))}
            firsts == {i \in ready :
                          \A j \in ready : j < i => ClaimKey(rs[j]) # ClaimKey(rs[i])}
            out == output.value
        IN /\ Len(out) = Cardinality(firsts)
           /\ SumSeq([k \in 1..Len(out) |-> Len(out[k].lines)]) = Cardinality(ready)
           /\ \A k \in 1..Cardinality(firsts) :
                 LET first == Nth(firsts, k)
                     members == {i \in ready : ClaimKey(rs[i]) = ClaimKey(rs[first])}
                 IN /\ out[k].product_name = Get(rs[first], "product_name")
                    /\ out[k].product_image = Or(Get(rs[first], "product_image"), EmptyStr)
                    /\ Truthy(out[k].product_link)
                    /\ Truthy(Get(rs[first], "product_link"))
                          => out[k].product_link = Get(rs[first], "product_link")
                    /\ Len(out[k].lines) = Cardinality(members)
                    /\ \A m \in 1..Cardinality(members) :
                          /\ out[k].lines[m].sku = Get(rs[Nth(members, m)], "sku")
                          /\ out[k].lines[m].stock = Get(rs[Nth(members, m)], "stock")

\* Three ready rows of two keys, the rows of one key apart, were grouped.
C4_Witness ==
    /\ ProductsRan /\ FlatUsed
    /\ Len(output.value) = 2
    /\ Len(output.value[1].lines) = 2
    /\ LET rs == Get(input, "items").v
       IN Len(rs) = 3 /\ ClaimKey(rs[1]) = ClaimKey(rs[3])
          /\ ClaimKey(rs[1]) # ClaimKey(rs[2])
          /\ Get(rs[1], "product_name") # Get(rs[3], "product_name")

(***************************************************************************)
(* C9: both normalizers give products priority over items: a products      *)
(* array alone decides the output, items is used only when products is no  *)
(* array, and the output is empty when neither is an array.                *)
(***************************************************************************)
\* The stock lines of the ready entries of the products array.
NestedLineCount(payload) ==
    LET ps == EntriesOf(payload, "products")
    IN SumSeq([i \in 1..Len(ps) |->
                  IF ~IsNullish(ps[i]) /\ HasReadyMarker(NestedNameOf(ps[i]))
                  THEN Len(StocksOf(ps[i])) ELSE 0])

FlatReadyCount(payload) ==
    LET rs == EntriesOf(payload, "items")
    IN Cardinality({i \in 1..Len(rs) :
                      ~IsNullish(rs[i]) /\ HasReadyMarker(Get(rs[i], "product_name"))})

OutputLines ==
    UNION {{<<output.value[k].lines[j].sku, output.value[k].lines[j].stock>>
              : j \in 1..Len(output.value[k].lines)} : k \in 1..Len(output.value)}

RowLines == {LineId(outRows.value[k]) : k \in 1..Len(outRows.value)}

C9_ProductsFirst ==
    /\ IsArrayField(input, "products") =>
          /\ ProductsRan =>
                /\ OutputLines \subseteq NestedReadyLines(input)
                /\ SumSeq([k \in 1..Len(output.value) |-> Len(output.value[k].lines)])
                      = NestedLineCount(input)
          /\ RowsRan =>
                /\ RowLines \subseteq NestedReadyLines(input)
                /\ Len(outRows.value) = NestedLineCount(input)
    /\ (~IsArrayField(input, "products") /\ IsArrayField(input, "items")) =>
          /\ ProductsRan =>
                SumSeq([k \in 1..Len(output.value) |-> Len(output.value[k].lines)])
                    = FlatReadyCount(input)
          /\ RowsRan => Len(outRows.value) = FlatReadyCount(input)
    /\ (~IsArrayField(input, "products") /\ ~IsArrayField(input, "items")) =>
          /\ ProductsRan => output.value = <<>>
          /\ RowsRan => outRows.value = <<>>

(***************************************************************************)
(* C5: the card view shows exactly the products, in their order and with   *)
(* all their lines, that match the trimmed query without regard to letter  *)
(* case, by name or by one of their lines; every product for an empty or   *)
(* blank query.                                                            *)
(***************************************************************************)
\* As the claim words it: the line's variation text, SKU and stock value
\* put together, the stock as its decimal string when it is a number and as
\* nothing otherwise.
ClaimedLineText(line) ==
    ToLowerCase(line.variation_inline.v
                \o (IF Truthy(line.sku) THEN JsString(line.sku) ELSE <<>>)
                \o (IF line.stock.t = "num" THEN Digits(line.stock.v) ELSE <<>>))

\* As amended: the three joined by single blanks, the stock as the string of
\* whatever value it holds unless it is null or absent.
AmendedLineText(line) ==
    ToLowerCase(line.variation_inline.v \o <<" ">>
                \o (IF Truthy(line.sku) THEN JsString(line.sku) ELSE <<>>) \o <<" ">>
                \o (IF IsNullish(line.stock) THEN <<>> ELSE JsString(line.stock)))

ClaimedVisible(all, boxValue, LineText(_)) ==
    LET q == ToLowerCase(Trim(boxValue))
    IN SelectSeq(all, LAMBDA p :
           \/ q = <<>>
           \/ Includes(ToLowerCase(p.product_name.v), q)
           \/ \E j \in 1..Len(p.lines) : Includes(LineText(p.lines[j]), q))

FilterShown == variant = "card" /\ listArea.kind \in {"list", "notfound"}

C5_FilterAsClaimed ==
    FilterShown =>
        listArea = renderProducts(ClaimedVisible(products, searchInput, ClaimedLineText))

C5_FilterAmended ==
    FilterShown =>
        listArea = renderProducts(ClaimedVisible(products, searchInput, AmendedLineText))

\* A query that no product name holds has left some products, not all.
C5_Witness ==
    /\ FilterShown
    /\ listArea.kind = "list"
    /\ Len(listArea.shown) < Len(products)
    /\ \A k \in 1..Len(products) :
          ~Includes(ToLowerCase(products[k].product_name.v), ToLowerCase(Trim(searchInput)))

(***************************************************************************)
(* C6: in both variants the three counters are those of the visible        *)
(* subset: distinct visible products, visible stock lines, and the sum of  *)
(* their numeric stock.                                                    *)
(***************************************************************************)
VisibleProducts ==
    IF variant = "card" /\ listArea.kind = "list"
    THEN CardFiltered(products, searchInput) ELSE <<>>

VisibleRows ==
    IF variant = "table" /\ listArea.kind = "list"
    THEN TableFiltered(rows, searchInput) ELSE <<>>

VisibleCounts ==
    IF variant = "card"
    THEN [products |-> Len(VisibleProducts),
          rows |-> SumSeq([k \in 1..Len(VisibleProducts) |-> Len(VisibleProducts[k].lines)]),
          qty |-> SumSeq([k \in 1..Len(VisibleProducts) |->
                            SumSeq([j \in 1..Len(VisibleProducts[k].lines) |->
                                       StockAmount(VisibleProducts[k].lines[j].stock)])])]
    ELSE [products |-> UniqueProducts(VisibleRows),
          rows |-> Len(VisibleRows),
          qty |-> SumSeq([k \in 1..Len(VisibleRows) |->
                            StockAmount(Get(VisibleRows[k], "stock"))])]

C6_CountersOfVisible ==
    listArea.kind # "markup" =>
        /\ totalProducts = formatNumber(Num(VisibleCounts.products))
        /\ totalRows = formatNumber(Num(VisibleCounts.rows))
        /\ totalQty = formatNumber(Num(VisibleCounts.qty))

(***************************************************************************)
(* C7: once every started loadData has completed, the retained products,   *)
(* the list, the counters and the status are those of the invocation that  *)
(* started last, in whatever order the responses arrived.                  *)
(***************************************************************************)
LatestResult ==
    IF settled.kind = "json" THEN normalizeProducts(settled.payload) ELSE Threw

C7_LatestLoadWins ==
    (variant = "card" /\ pending = {} /\ started >= 2) =>
        IF LatestResult.threw
        THEN statusText.kind = "failed"
        ELSE /\ statusText = SourceStatus(WebsiteOf(settled.payload))
             /\ products = LatestResult.value
             /\ listArea = renderProducts(CardFiltered(products, searchInput))
             /\ totalProducts = updateSummary(CardFiltered(products, searchInput)).products
             /\ totalRows = updateSummary(CardFiltered(products, searchInput)).rows
             /\ totalQty = updateSummary(CardFiltered(products, searchInput)).qty

(***************************************************************************)
(* C8: the text query round-trips through the address: getInitialQuery of  *)
(* the address the page has after a query change is the trimmed content of *)
(* the search box.                                                         *)
(***************************************************************************)
C8_QueryRoundTrip == getInitialQuery(url) = Trim(searchInput)

(***************************************************************************)
(* C10: in the card view, while the status reports a failed load the list  *)
(* area is in the empty-result state and the three counters show zero.     *)
(***************************************************************************)
C10_FailureShowsEmpty ==
    (variant = "card" /\ statusText.kind = "failed") =>
        /\ listArea.kind \in {"unavailable", "notfound"}
        /\ totalProducts = <<"0">>
        /\ totalRows = <<"0">>
        /\ totalQty = <<"0">>

====
